---- MODULE Spec2Model ----
(***************************************************************************)
(* Model of QBittorrentClient (src/index.ts, lines 71-337): the session    *)
(* token, the request dispatcher with its lazy login, login/logout and the *)
(* public operations built on request().                                   *)
(*                                                                         *)
(* JavaScript runs one task at a time and an async function runs           *)
(* synchronously up to its next await, so every action below is the code   *)
(* between two suspension points of one call.  Several calls may be in     *)
(* flight on the same client; Procs are the call slots.                    *)
(*                                                                         *)
(* Strings that the code inspects character by character (the Set-Cookie   *)
(* header and the session token cut out of it) are sequences of symbols;   *)
(* the symbol "SID=" stands for those four characters.  The empty sequence *)
(* is a falsy value (undefined or ''), which is all the code ever asks of  *)
(* this.sid.  username and password are TLA+ strings, "" being falsy       *)
(* (undefined or ''): the code reads them only through truthiness (line    *)
(* 99) and through `|| ''` (lines 129-130).                                *)
(***************************************************************************)
EXTENDS Integers, Sequences, FiniteSets, TLC

\* number of calls that can be in flight on one client at the same time
NumCalls == 2

Procs == 1..NumCalls

\* ------------------------------------------------------------------------
\* Values
\* ------------------------------------------------------------------------

\* this.sid === undefined
NoSid == << >>

\* config.username / config.password given to the constructor
Usernames == {"", "admin"}
Passwords == {"", "password"}

\* Set-Cookie headers a login response may carry; << >> is "no such header"
\* (response.headers or headers.get('set-cookie') is undefined/null).
CookieHeaders ==
    { << >>,
      <<"a">>,
      <<"SID=", ";">>,
      <<"SID=", "a", "b">>,
      <<"SID=", "b", ";", "a">>,
      <<"a", ";", "SID=", "b">>,
      <<"SID=", ";", "SID=", "a", "b">> }

\* What an `await ofetch(...)` yields.  to: the request it answers ("login"
\* or "api"); fault: ofetch rejects (network error or non-2xx status);
\* hasBody/body: the response text; setCookie: its Set-Cookie header.
Resp(t, f, hb, b, h) == [to |-> t, fault |-> f, hasBody |-> hb, body |-> b, setCookie |-> h]
NoResp == Resp("none", FALSE, FALSE, "", << >>)

\* Answers to auth/login: a fault, or a value with a text (what
\* `response === 'Fails.'` looks at) and a Set-Cookie header (what
\* response.headers?.get('set-cookie') yields).
LoginResponses ==
    {Resp("login", TRUE, FALSE, "", << >>)}
      \cup {Resp("login", FALSE, TRUE, "Fails.", h) : h \in {<< >>, <<"SID=", "a", "b">>}}
      \cup {Resp("login", FALSE, TRUE, "Ok.", h) : h \in CookieHeaders}

\* Response bodies of an API request (the txt given to parseResponse).
Bodies == {"Ok.", "Fails.", "", "v2.0", "true", "null", "false", "0",
           "\"\"", "[]", "{}", "[1]", "{\"a\":1}"}

\* Answers to an API request: a fault, a response without a body, or a body.
ApiResponses ==
    {Resp("api", TRUE, FALSE, "", << >>), Resp("api", FALSE, FALSE, "", << >>)}
      \cup {Resp("api", FALSE, TRUE, b, << >>) : b \in Bodies}

\* JSON.parse(txt) on the bodies above; the result is named by its
\* JavaScript literal, "SyntaxError" when JSON.parse throws.
JSONParse(txt) ==
    CASE txt = "true"        -> "true"
      [] txt = "null"        -> "null"
      [] txt = "false"       -> "false"
      [] txt = "0"           -> "0"
      [] txt = "\"\""        -> "''"
      [] txt = "[]"          -> "[]"
      [] txt = "{}"          -> "{}"
      [] txt = "[1]"         -> "[1]"
      [] txt = "{\"a\":1}"   -> "{a:1}"
      [] OTHER               -> "SyntaxError"

\* ParseResponse, had a body that is not JSON been handed back as raw text
ParseResponseLenient(txt) ==
    IF txt = "Ok." THEN "true"
    ELSE IF JSONParse(txt) = "SyntaxError" THEN txt ELSE JSONParse(txt)

\* parseResponse: (txt) => txt === 'Ok.' ? true : JSON.parse(txt)
ParseResponse(txt) == IF txt = "Ok." THEN "true" ELSE JSONParse(txt)

\* Falsy, had `!response` also rejected empty lists and objects
FalsyOrEmpty(v) == v \in {"null", "false", "0", "''", "undefined", "[]", "{}"}

\* JavaScript truthiness of a decoded value: !v is true exactly for these.
Falsy(v) == v \in {"null", "false", "0", "''", "undefined"}

\* ------------------------------------------------------------------------
\* /SID=([^;]+)/ on a Set-Cookie header
\* ------------------------------------------------------------------------

\* the regex matches at position i: "SID=" followed by at least one non-';'
MatchesAt(h, i) == i + 1 <= Len(h) /\ h[i] = "SID=" /\ h[i + 1] # ";"

\* [^;]+ is greedy: the capture runs to the last symbol before the next ';'
CaptureEnd(h, i) ==
    CHOOSE j \in (i + 1)..Len(h) :
        /\ \A k \in (i + 1)..j : h[k] # ";"
        /\ (j = Len(h) \/ h[j + 1] = ";")

\* header.match(/SID=([^;]+)/)?.[1]: the capture of the leftmost match, or
\* undefined when there is no match (or no header)
ExtractSid(h) ==
    IF \E i \in 1..Len(h) : MatchesAt(h, i)
    THEN LET i == CHOOSE i \in 1..Len(h) :
                      MatchesAt(h, i) /\ \A k \in 1..(i - 1) : ~MatchesAt(h, k)
         IN  SubSeq(h, i + 1, CaptureEnd(h, i))
    ELSE NoSid

\* ------------------------------------------------------------------------
\* State
\* ------------------------------------------------------------------------

VARIABLES
    username,   \* this.username
    password,   \* this.password
    sid,        \* this.sid
    pc,         \* pc[p]: where call p is suspended ("idle": no call)
    op,         \* op[p]: the public method call p is executing
    pend,       \* pend[p]: method/endpoint/data of request() while it awaits login()
    event       \* what the latest step did that the outside can see

vars == <<username, password, sid, pc, op, pend, event>>

\* one name/value pair of a query string or form body; filename and type
\* are set for the file parts of a multipart form
Field(n, v) == [name |-> n, value |-> v, filename |-> "", type |-> ""]

\* the arguments request(method, endpoint, data) is called with; the query
\* string the callers append to the endpoint is kept as a list of pairs
Req(m, e, q, b) == [method |-> m, endpoint |-> e, query |-> q, body |-> b]
NoReq == Req("", "", << >>, << >>)

\* a request as ofetch receives it: Cookie is the Cookie header, << >> when
\* the headers object has no Cookie entry
OnWire(r, c) == [method |-> r.method, endpoint |-> r.endpoint, query |-> r.query,
                 body |-> r.body, Cookie |-> c]
NoWire == OnWire(NoReq, << >>)

\* The event of a step, for the call (method op) that took it:
\*   kind "sent"    a request was handed to ofetch (req); arg is the
\*                  argument of the call when the step is the call itself
\*   kind "token"   a lazy login() returned, having assigned this.sid
\*   kind "settled" request() returned to a caller that resumes later
\*   kind "done"    the call returned (error = "", value) or threw (error);
\*                  arg is the argument of a call that ended before it
\*                  suspended
\* resp is the response the step consumed, sidBefore is this.sid just
\* before the step.
Event(k, r, o, a, err, val, rs) ==
    [kind |-> k, req |-> r, op |-> o, arg |-> a, error |-> err, value |-> val,
     resp |-> rs, sidBefore |-> sid]
Sent(r, o, a) == Event("sent", r, o, a, "", "undefined", NoResp)
Done(o, a, err, val, rs) == Event("done", NoWire, o, a, err, val, rs)

\* new QBittorrentClient(config): nothing is sent, no token is held
Init ==
    /\ username \in Usernames
    /\ password \in Passwords
    /\ sid = NoSid
    /\ pc = [p \in Procs |-> "idle"]
    /\ op = [p \in Procs |-> "none"]
    /\ pend = [p \in Procs |-> NoReq]
    /\ event = [kind |-> "none", req |-> NoWire, op |-> "none", arg |-> << >>,
                error |-> "", value |-> "undefined", resp |-> NoResp,
                sidBefore |-> NoSid]

\* ------------------------------------------------------------------------
\* Error messages
\* ------------------------------------------------------------------------

ErrLoginFailed   == "Login failed"
ErrSidExtraction == "Failed to extract session ID (SID)."
ErrRequestFailed == "Request failed: "
ErrTransport     == "FetchError"
ErrNoTorrent     == "At least one torrent or URL must be provided."
ErrBufferType    == "Unsupported buffer type"
ErrSetCategory   == "Failed to set category"
ErrPeers         == "Failed to retrieve torrent peers"
ErrPreferences   == "Failed to retrieve preferences"

\* ------------------------------------------------------------------------
\* request() and login()
\* ------------------------------------------------------------------------

\* the call p returns or throws: its slot is free again
Complete(p, err, val, rs) ==
    /\ pc' = [pc EXCEPT ![p] = "idle"]
    /\ op' = [op EXCEPT ![p] = "none"]
    /\ pend' = [pend EXCEPT ![p] = NoReq]
    /\ event' = Done(op[p], << >>, err, val, rs)

\* NeedsLogin, had line 99 not looked at the token held
NeedsLoginEveryCall == username # "" /\ password # ""

\* NeedsLogin, had line 99 tested the username only
NeedsLoginUserOnly == sid = NoSid /\ username # ""

\* NeedsLogin, had line 99 skipped the login while another one is in flight
NeedsLoginSingleFlight ==
    /\ sid = NoSid /\ username # "" /\ password # ""
    /\ \A q \in Procs : pc[q] # "login_wait"

\* line 99: !this.sid && this.username && this.password
NeedsLogin == sid = NoSid /\ username # "" /\ password # ""

\* lines 126-133: the request login() hands to ofetch (only a Content-Type
\* header, never a Cookie)
LoginRequest ==
    OnWire(Req("POST", "auth/login", << >>,
               <<Field("username", username), Field("password", password)>>), << >>)

\* CookieHeader, had line 105 sent the bare token
CookieHeaderBare(s) == s

\* lines 103-106: headers['Cookie'] = `SID=${this.sid}` when this.sid is truthy
CookieHeader(s) == IF s # NoSid THEN <<"SID=">> \o s ELSE << >>

\* request() from its first line to its first await, entered by method o
\* called with argument a: either login() is entered and its ofetch issued
\* (line 100 -> 126), or the headers are built and the API request is
\* issued (lines 103-109)
Dispatch(p, o, a, r) ==
    /\ pc[p] = "idle"
    /\ op' = [op EXCEPT ![p] = o]
    /\ IF NeedsLogin
       THEN /\ event' = Sent(LoginRequest, o, a)
            /\ pc' = [pc EXCEPT ![p] = "login_wait"]
            /\ pend' = [pend EXCEPT ![p] = r]
       ELSE /\ event' = Sent(OnWire(r, CookieHeader(sid)), o, a)
            /\ pc' = [pc EXCEPT ![p] = "api_wait"]
            /\ pend' = pend
    /\ UNCHANGED <<username, password, sid>>

\* client.login() called by the user: lines 125-133
Login(p) ==
    /\ pc[p] = "idle"
    /\ op' = [op EXCEPT ![p] = "login"]
    /\ pc' = [pc EXCEPT ![p] = "login_wait"]
    /\ event' = Sent(LoginRequest, "login", << >>)
    /\ UNCHANGED <<username, password, sid, pend>>

\* LoginOutcome, had the 'Fails.' branch cleared this.sid before throwing
LoginOutcomeClearOnFails(r) ==
    IF r.fault THEN [error |-> ErrTransport, sid |-> sid]
    ELSE IF r.body = "Fails." THEN [error |-> ErrLoginFailed, sid |-> NoSid]
    ELSE LET t == ExtractSid(r.setCookie)
         IN  [error |-> IF t = NoSid THEN ErrSidExtraction ELSE "", sid |-> t]

\* LoginOutcome, had line 140 assigned this.sid only when none was held
LoginOutcomeAssignIfUnset(r) ==
    IF r.fault THEN [error |-> ErrTransport, sid |-> sid]
    ELSE IF r.body = "Fails." THEN [error |-> ErrLoginFailed, sid |-> sid]
    ELSE LET t == IF sid # NoSid THEN sid ELSE ExtractSid(r.setCookie)
         IN  [error |-> IF t = NoSid THEN ErrSidExtraction ELSE "", sid |-> t]

\* LoginOutcome, had line 140 assigned this.sid only when the match succeeded
LoginOutcomeKeepOnNoMatch(r) ==
    IF r.fault THEN [error |-> ErrTransport, sid |-> sid]
    ELSE IF r.body = "Fails." THEN [error |-> ErrLoginFailed, sid |-> sid]
    ELSE LET t == ExtractSid(r.setCookie)
         IN  [error |-> IF t = NoSid THEN ErrSidExtraction ELSE "",
              sid |-> IF t = NoSid THEN sid ELSE t]

\* login() after its await, lines 133-145: how it ends (error = "" when it
\* returns) and what this.sid is afterwards.  A rejection of ofetch leaves
\* login() with the transport's own error; 'Fails.' throws before this.sid
\* is assigned; otherwise this.sid is assigned whatever the match gives,
\* undefined included.
LoginOutcome(r) ==
    IF r.fault THEN [error |-> ErrTransport, sid |-> sid]
    ELSE IF r.body = "Fails." THEN [error |-> ErrLoginFailed, sid |-> sid]
    ELSE LET t == ExtractSid(r.setCookie)
         IN  [error |-> IF t = NoSid THEN ErrSidExtraction ELSE "", sid |-> t]

\* The answer to auth/login arrives.  An error of login() leaves the
\* request() awaiting it on line 100 (outside its try block) and the method
\* that called request() unchanged.  After a lazy login that returned, the
\* request() that awaited it resumes in a later step.
LoginResponse(p, r) ==
    /\ pc[p] = "login_wait"
    /\ sid' = LoginOutcome(r).sid
    /\ UNCHANGED <<username, password>>
    /\ IF LoginOutcome(r).error # "" \/ op[p] = "login"
       THEN Complete(p, LoginOutcome(r).error, "undefined", r)
       ELSE /\ pc' = [pc EXCEPT ![p] = "after_login"]
            /\ event' = Event("token", NoWire, op[p], << >>, "", "undefined", r)
            /\ UNCHANGED <<op, pend>>

\* RequestResume, had the headers been built before the login was awaited
RequestResumeStaleHeaders(p) ==
    /\ pc[p] = "after_login"
    /\ event' = Sent(OnWire(pend[p], << >>), op[p], << >>)
    /\ pc' = [pc EXCEPT ![p] = "api_wait"]
    /\ pend' = [pend EXCEPT ![p] = NoReq]
    /\ UNCHANGED <<username, password, sid, op>>

\* request() resumed after `await this.login()`: lines 103-109
RequestResume(p) ==
    /\ pc[p] = "after_login"
    /\ event' = Sent(OnWire(pend[p], CookieHeader(sid)), op[p], << >>)
    /\ pc' = [pc EXCEPT ![p] = "api_wait"]
    /\ pend' = [pend EXCEPT ![p] = NoReq]
    /\ UNCHANGED <<username, password, sid, op>>

\* what `await ofetch(url, {..., parseResponse})` gives request(), lines
\* 108-117: "throw" when ofetch rejects or parseResponse throws (the catch
\* rethrows 'Request failed: ...'), else the decoded value; a response
\* without a body is resolved to undefined without parseResponse
Decoded(r) ==
    IF r.fault THEN "throw"
    ELSE IF ~r.hasBody THEN "undefined"
    ELSE IF ParseResponse(r.body) = "SyntaxError" THEN "throw"
    ELSE ParseResponse(r.body)

\* the caller of request() once the request settles.  logout() has a
\* statement of its own after the await and resumes in a later step; the
\* other callers only inspect the value
ApiResponse(p, r) ==
    /\ pc[p] = "api_wait"
    /\ UNCHANGED <<username, password, sid>>
    /\ LET v == Decoded(r) IN
       IF v = "throw"
       THEN Complete(p, ErrRequestFailed, "undefined", r)
       ELSE CASE op[p] = "logout" ->
                   /\ pc' = [pc EXCEPT ![p] = "logout_resume"]
                   /\ event' = Event("settled", NoWire, op[p], << >>, "", v, r)
                   /\ UNCHANGED <<op, pend>>
              [] op[p] = "setCategory" ->
                   IF v # "true"
                   THEN Complete(p, ErrSetCategory, "undefined", r)
                   ELSE Complete(p, "", "undefined", r)
              [] op[p] = "getTorrentPeers" ->
                   IF Falsy(v)
                   THEN Complete(p, ErrPeers, "undefined", r)
                   ELSE Complete(p, "", v, r)
              [] op[p] = "getPreferences" ->
                   IF Falsy(v)
                   THEN Complete(p, ErrPreferences, "undefined", r)
                   ELSE Complete(p, "", v, r)
              [] OTHER -> Complete(p, "", v, r)

\* torrent hashes and categories the callers pass
Hashes == {"h1"}
Categories == {"movies"}

\* ------------------------------------------------------------------------
\* Public operations
\* ------------------------------------------------------------------------

\* logout(), line 152
Logout(p) == Dispatch(p, "logout", << >>, Req("POST", "auth/logout", << >>, << >>))

\* logout() resumed after its await, line 153
LogoutResume(p) ==
    /\ pc[p] = "logout_resume"
    /\ sid' = NoSid
    /\ Complete(p, "", "undefined", NoResp)
    /\ UNCHANGED <<username, password>>

GetAPIVersion(p) == Dispatch(p, "getAPIVersion", << >>, Req("GET", "app/version", << >>, << >>))

GetAllData(p) == Dispatch(p, "getAllData", << >>, Req("GET", "torrents/info", << >>, << >>))

PauseTorrent(p, hash) ==
    Dispatch(p, "pauseTorrent", << >>, Req("POST", "torrents/pause", << >>, <<Field("hashes", hash)>>))

ResumeTorrent(p, hash) ==
    Dispatch(p, "resumeTorrent", << >>, Req("POST", "torrents/resume", << >>, <<Field("hashes", hash)>>))

BoolToString(b) == IF b THEN "true" ELSE "false"

RemoveTorrent(p, hash, deleteData) ==
    Dispatch(p, "removeTorrent", << >>,
             Req("POST", "torrents/delete", << >>,
                 <<Field("hashes", hash), Field("deleteFiles", BoolToString(deleteData))>>))

SetCategory(p, hash, category) ==
    Dispatch(p, "setCategory", << >>,
             Req("POST", "torrents/setCategory", << >>,
                 <<Field("hashes", hash), Field("category", category)>>))

GetTorrentPeers(p, hash) ==
    Dispatch(p, "getTorrentPeers", << >>, Req("GET", "torrents/peers", <<Field("hash", hash)>>, << >>))

GetPreferences(p) == Dispatch(p, "getPreferences", << >>, Req("GET", "app/preferences", << >>, << >>))

\* ------------------------------------------------------------------------
\* addTorrent
\* ------------------------------------------------------------------------

\* An argument of type `T | T[] | undefined` is [isArray, items]: undefined
\* is a non-array without items, a single value a non-array with one item.
Absent == [isArray |-> FALSE, items |-> << >>]
One(x) == [isArray |-> FALSE, items |-> <<x>>]
List(xs) == [isArray |-> TRUE, items |-> xs]

\* truthiness of `string | string[] | undefined`: an array is truthy, a
\* string unless it is empty
TruthyStrs(a) == a.isArray \/ (a.items # << >> /\ a.items[1] # "")

\* truthiness of `TorrentFile | TorrentFile[] | undefined`
TruthyObjs(a) == a.isArray \/ a.items # << >>

\* Array.prototype.join
RECURSIVE Join(_, _)
Join(xs, sep) ==
    IF xs = << >> THEN ""
    ELSE IF Len(xs) = 1 THEN xs[1]
    ELSE xs[1] \o sep \o Join(Tail(xs), sep)

\* Number.prototype.toString for a natural number
Digit(d) == CASE d = 0 -> "0" [] d = 1 -> "1" [] d = 2 -> "2" [] d = 3 -> "3"
              [] d = 4 -> "4" [] d = 5 -> "5" [] d = 6 -> "6" [] d = 7 -> "7"
              [] d = 8 -> "8" [] d = 9 -> "9"
RECURSIVE NumToString(_)
NumToString(n) == IF n < 10 THEN Digit(n) ELSE NumToString(n \div 10) \o Digit(n % 10)

\* the buffer representations lines 196-206 tell apart; anything else is
\* "other"
SupportedBuffers == {"string", "Buffer", "ArrayBuffer", "SharedArrayBuffer"}

\* lines 194-209 for the torrent at zero-based position index: the part
\* appended under the name 'torrents'
TorrentPart(torrent, index) ==
    [name |-> "torrents",
     value |-> torrent.content,
     filename |-> IF torrent.filename # "" THEN torrent.filename
                  ELSE "torrent_" \o NumToString(index) \o ".torrent",
     type |-> torrent.content_type]

\* lines 185-188
UrlFields(params) ==
    IF TruthyStrs(params.urls)
    THEN <<Field("urls", IF params.urls.isArray THEN Join(params.urls.items, "\n")
                         ELSE params.urls.items[1])>>
    ELSE << >>

\* TorrentFields, had the fallback name counted the unnamed files only
TorrentFieldsRankNamed(params) ==
    IF TruthyObjs(params.torrents)
    THEN [i \in 1..Len(params.torrents.items) |->
            TorrentPart(params.torrents.items[i],
                        Cardinality({j \in 1..(i - 1) : params.torrents.items[j].filename = ""}))]
    ELSE << >>

\* lines 191-211
TorrentFields(params) ==
    IF TruthyObjs(params.torrents)
    THEN [i \in 1..Len(params.torrents.items) |-> TorrentPart(params.torrents.items[i], i - 1)]
    ELSE << >>

\* ScalarFields, had lines 214-220 tested `!== undefined`
ScalarFieldsWhenDefined(params) ==
    (IF params.savepath # "" THEN <<Field("savepath", params.savepath)>> ELSE << >>)
    \o (IF params.category # "" THEN <<Field("category", params.category)>> ELSE << >>)
    \o (IF params.paused # << >>
        THEN <<Field("paused", BoolToString(params.paused[1]))>> ELSE << >>)
    \o (IF params.skip_checking # << >>
        THEN <<Field("skip_checking", BoolToString(params.skip_checking[1]))>> ELSE << >>)
    \o (IF params.rename # "" THEN <<Field("rename", params.rename)>> ELSE << >>)
    \o (IF params.upLimit # << >>
        THEN <<Field("upLimit", NumToString(params.upLimit[1]))>> ELSE << >>)
    \o (IF params.dlLimit # << >>
        THEN <<Field("dlLimit", NumToString(params.dlLimit[1]))>> ELSE << >>)

\* lines 214-220: a scalar is appended when it is truthy
ScalarFields(params) ==
    (IF params.savepath # "" THEN <<Field("savepath", params.savepath)>> ELSE << >>)
    \o (IF params.category # "" THEN <<Field("category", params.category)>> ELSE << >>)
    \o (IF params.paused = <<TRUE>> THEN <<Field("paused", BoolToString(TRUE))>> ELSE << >>)
    \o (IF params.skip_checking = <<TRUE>>
        THEN <<Field("skip_checking", BoolToString(TRUE))>> ELSE << >>)
    \o (IF params.rename # "" THEN <<Field("rename", params.rename)>> ELSE << >>)
    \o (IF params.upLimit # << >> /\ params.upLimit[1] # 0
        THEN <<Field("upLimit", NumToString(params.upLimit[1]))>> ELSE << >>)
    \o (IF params.dlLimit # << >> /\ params.dlLimit[1] # 0
        THEN <<Field("dlLimit", NumToString(params.dlLimit[1]))>> ELSE << >>)

\* the FormData of lines 182-220
AddTorrentForm(params) == UrlFields(params) \o TorrentFields(params) \o ScalarFields(params)

\* NoTorrentGiven, had line 179 not tested the length of the array
NoTorrentGivenNoLengthCheck(params) == ~TruthyObjs(params.torrents)

\* line 179
NoTorrentGiven(params) ==
    \/ ~TruthyObjs(params.torrents)
    \/ (params.torrents.isArray /\ Len(params.torrents.items) = 0)

\* HasUnsupportedBuffer, had only the first torrent been examined
HasUnsupportedBufferFirstOnly(params) ==
    /\ params.torrents.items # << >>
    /\ params.torrents.items[1].bufferKind \notin SupportedBuffers

\* line 205 is reached for some torrent of the list
HasUnsupportedBuffer(params) ==
    \E i \in 1..Len(params.torrents.items) :
        params.torrents.items[i].bufferKind \notin SupportedBuffers

\* a call throws before it reaches request(): nothing is sent, nothing changes
Rejected(p, o, a, err) ==
    /\ event' = Done(o, a, err, "undefined", NoResp)
    /\ UNCHANGED <<username, password, sid, pc, op, pend>>

\* addTorrent(params), lines 178-223, up to the first await of request()
AddTorrent(p, params) ==
    IF NoTorrentGiven(params)
    THEN /\ pc[p] = "idle"
         /\ Rejected(p, "addTorrent", <<params>>, ErrNoTorrent)
    ELSE IF HasUnsupportedBuffer(params)
    THEN /\ pc[p] = "idle"
         /\ Rejected(p, "addTorrent", <<params>>, ErrBufferType)
    ELSE Dispatch(p, "addTorrent", <<params>>, Req("POST", "torrents/add", << >>, AddTorrentForm(params)))

\* ------------------------------------------------------------------------
\* getTorrentInfo
\* ------------------------------------------------------------------------

\* InfoQuery, had line 268 joined the hashes with a comma
InfoQueryCommaJoin(params) ==
    (IF params.filter # "" THEN <<Field("filter", params.filter)>> ELSE << >>)
    \o (IF params.category # "" THEN <<Field("category", params.category)>> ELSE << >>)
    \o (IF params.sort # "" THEN <<Field("sort", params.sort)>> ELSE << >>)
    \o (IF params.reverse = <<TRUE>> THEN <<Field("reverse", BoolToString(TRUE))>> ELSE << >>)
    \o (IF params.limit # << >> /\ params.limit[1] # 0
        THEN <<Field("limit", NumToString(params.limit[1]))>> ELSE << >>)
    \o (IF params.offset # << >> /\ params.offset[1] # 0
        THEN <<Field("offset", NumToString(params.offset[1]))>> ELSE << >>)
    \o (IF TruthyStrs(params.hashes)
        THEN <<Field("hashes", IF params.hashes.isArray THEN Join(params.hashes.items, ",")
                               ELSE params.hashes.items[1])>>
        ELSE << >>)

\* lines 260-270: the URLSearchParams
InfoQuery(params) ==
    (IF params.filter # "" THEN <<Field("filter", params.filter)>> ELSE << >>)
    \o (IF params.category # "" THEN <<Field("category", params.category)>> ELSE << >>)
    \o (IF params.sort # "" THEN <<Field("sort", params.sort)>> ELSE << >>)
    \o (IF params.reverse = <<TRUE>> THEN <<Field("reverse", BoolToString(TRUE))>> ELSE << >>)
    \o (IF params.limit # << >> /\ params.limit[1] # 0
        THEN <<Field("limit", NumToString(params.limit[1]))>> ELSE << >>)
    \o (IF params.offset # << >> /\ params.offset[1] # 0
        THEN <<Field("offset", NumToString(params.offset[1]))>> ELSE << >>)
    \o (IF TruthyStrs(params.hashes)
        THEN <<Field("hashes", IF params.hashes.isArray THEN Join(params.hashes.items, "|")
                               ELSE params.hashes.items[1])>>
        ELSE << >>)

\* getTorrentInfo(params), lines 259-273
GetTorrentInfo(p, params) ==
    Dispatch(p, "getTorrentInfo", <<params>>, Req("GET", "torrents/info", InfoQuery(params), << >>))

\* ------------------------------------------------------------------------
\* Arguments the callers pass
\* ------------------------------------------------------------------------

NoScalars == [savepath |-> "", category |-> "", paused |-> << >>, skip_checking |-> << >>,
              rename |-> "", upLimit |-> << >>, dlLimit |-> << >>]

File(fn, kind) == [filename |-> fn, bufferKind |-> kind, content |-> "d8:announce",
                   content_type |-> "application/x-bittorrent"]

UrlArgs == {Absent, One(""), One("magnet:1"), List(<<"magnet:1", "http://t/2">>)}

TorrentArgs == {Absent, List(<< >>), One(File("", "Buffer")),
                List(<<File("", "string"), File("x.torrent", "other")>>)}

AddArgs ==
    {[urls |-> u, torrents |-> t] @@ NoScalars : u \in UrlArgs, t \in TorrentArgs}
      \cup {[urls |-> Absent,
             torrents |-> List(<<File("x.torrent", "Buffer"), File("", "string"),
                                 File("", "ArrayBuffer")>>)] @@ NoScalars,
            [urls |-> Absent,
             torrents |-> List(<<File("", "ArrayBuffer"), File("x.torrent", "SharedArrayBuffer")>>),
             savepath |-> "/dl", category |-> "movies", paused |-> <<TRUE>>,
             skip_checking |-> <<FALSE>>, rename |-> "", upLimit |-> <<10>>, dlLimit |-> <<0>>],
            [urls |-> One("magnet:1"),
             torrents |-> One(File("", "Buffer")),
             savepath |-> "", category |-> "", paused |-> <<FALSE>>,
             skip_checking |-> <<TRUE>>, rename |-> "new.name", upLimit |-> <<0>>,
             dlLimit |-> <<5>>]}

InfoArgs ==
    {[filter |-> "", category |-> "", sort |-> "", reverse |-> << >>, limit |-> << >>,
      offset |-> << >>, hashes |-> Absent],
     [filter |-> "downloading", category |-> "", sort |-> "", reverse |-> << >>,
      limit |-> << >>, offset |-> << >>, hashes |-> List(<<"a", "b">>)],
     [filter |-> "", category |-> "movies", sort |-> "name", reverse |-> <<FALSE>>,
      limit |-> <<10>>, offset |-> <<0>>, hashes |-> One("a")],
     [filter |-> "", category |-> "", sort |-> "", reverse |-> <<TRUE>>,
      limit |-> <<0>>, offset |-> <<5>>, hashes |-> List(<< >>)]}

\* ------------------------------------------------------------------------
\* Specification
\* ------------------------------------------------------------------------

\* Arguments and responses of the concurrent specification, which runs one
\* method of each shape: login(), logout() (a statement after its await),
\* getAPIVersion() (a bare `return this.request(...)`), addTorrent() (a check
\* and a form before request()) and getTorrentPeers() (a check after it).
\* SeqSpec below runs every method.
ConcAddArgs ==
    {[urls |-> u, torrents |-> t] @@ NoScalars :
        u \in {Absent, One("magnet:1")}, t \in {Absent, One(File("", "Buffer"))}}

ConcApiResponses == {r \in ApiResponses : r.fault \/ ~r.hasBody \/ r.body \in {"Ok.", "Fails.", "{}"}}

\* Calls issued on one client without awaiting one another: up to NumCalls
\* calls are in flight at a time.
Next ==
    \/ \E p \in Procs : Login(p)
    \/ \E p \in Procs, r \in LoginResponses : LoginResponse(p, r)
    \/ \E p \in Procs : RequestResume(p)
    \/ \E p \in Procs, r \in ConcApiResponses : ApiResponse(p, r)
    \/ \E p \in Procs : Logout(p)
    \/ \E p \in Procs : LogoutResume(p)
    \/ \E p \in Procs : GetAPIVersion(p)
    \/ \E p \in Procs, params \in ConcAddArgs : AddTorrent(p, params)
    \/ \E p \in Procs, hash \in Hashes : GetTorrentPeers(p, hash)

Spec == Init /\ [][Next]_vars

\* One caller that awaits every call before it issues the next: every
\* public method, with the full sets of arguments and responses.
Caller == CHOOSE p \in Procs : TRUE

NextSeq ==
    \/ Login(Caller)
    \/ \E r \in LoginResponses : LoginResponse(Caller, r)
    \/ RequestResume(Caller)
    \/ \E r \in ApiResponses : ApiResponse(Caller, r)
    \/ Logout(Caller)
    \/ LogoutResume(Caller)
    \/ GetAPIVersion(Caller)
    \/ GetAllData(Caller)
    \/ \E params \in AddArgs : AddTorrent(Caller, params)
    \/ \E hash \in Hashes : PauseTorrent(Caller, hash)
    \/ \E hash \in Hashes : ResumeTorrent(Caller, hash)
    \/ \E hash \in Hashes, deleteData \in BOOLEAN : RemoveTorrent(Caller, hash, deleteData)
    \/ \E params \in InfoArgs : GetTorrentInfo(Caller, params)
    \/ \E hash \in Hashes, category \in Categories : SetCategory(Caller, hash, category)
    \/ \E hash \in Hashes : GetTorrentPeers(Caller, hash)
    \/ GetPreferences(Caller)

SeqSpec == Init /\ [][NextSeq]_vars

\* ------------------------------------------------------------------------
\* Properties
\* ------------------------------------------------------------------------

\* t is a SID value of the header h: the text that follows an occurrence of
\* 'SID=' and runs up to the next ';' (or the end of the header)
SidValueOf(t, h) ==
    /\ t # << >>
    /\ \A k \in 1..Len(t) : t[k] # ";"
    /\ \E i \in 1..Len(h) :
          /\ h[i] = "SID="
          /\ i + Len(t) <= Len(h)
          /\ SubSeq(h, i + 1, i + Len(t)) = t
          /\ (i + Len(t) = Len(h) \/ h[i + Len(t) + 1] = ";")

\* the header h holds no SID value at all
NoSidIn(h) == ~\E i \in 1..(Len(h) - 1) : h[i] = "SID=" /\ h[i + 1] # ";"

\* the step is the answer to a login request / to an API request
LoginAnswered == event'.resp.to = "login"
ApiAnswered == event'.resp.to = "api"

\* the step is a call p makes that reaches request()
Dispatched(p) == pc[p] = "idle" /\ pc'[p] # "idle" /\ op'[p] # "login"

\* C1: every API request is sent with the Cookie header SID=<token> of the
\* token held at that moment, and with no Cookie header when none is held;
\* a token is only ever obtained from a login that returned, and it is a
\* SID value of that login's Set-Cookie header.
C1_Step ==
    /\ (event'.kind = "sent" /\ event'.req.endpoint # "auth/login")
         => /\ sid # NoSid => event'.req.Cookie = <<"SID=">> \o sid
            /\ event'.req.Cookie # << >> =>
                  (sid # NoSid /\ event'.req.Cookie = <<"SID=">> \o sid)
    /\ (LoginAnswered /\ event'.error = "")
         => SidValueOf(sid', event'.resp.setCookie)
    /\ (sid' # sid /\ sid' # NoSid) => (LoginAnswered /\ event'.error = "")
C1_CookieIsHeldToken == [][C1_Step]_vars

\* C1 witness: an API request was just sent with the held token's cookie
\* while another call is in flight.
C1_Witness ==
    /\ event.kind = "sent"
    /\ event.req.endpoint # "auth/login"
    /\ sid # NoSid
    /\ event.req.Cookie = <<"SID=">> \o sid
    /\ \E p, q \in Procs : p # q /\ pc[p] = "api_wait" /\ pc[q] # "idle"

\* C2 (as claimed): whenever logout() finishes, normally or with an error,
\* the client holds no session token.
C2_LogoutAlwaysClears ==
    [][(event'.kind = "done" /\ event'.op = "logout") => sid' = NoSid]_vars

\* C3 (as claimed): a login answered 'Fails.' throws 'Login failed' and the
\* session token is unset afterwards.
C3_FailsLeavesUnset ==
    [][(LoginAnswered /\ ~event'.resp.fault /\ event'.resp.body = "Fails.")
          => (event'.kind = "done" /\ event'.error = ErrLoginFailed /\ sid' = NoSid)]_vars

\* C3 (amended): a login answered 'Fails.' throws 'Login failed' and leaves
\* the session token as it was: unset if none was held, the earlier token if
\* one was held.
C3_FailsLeavesTokenAsItWas ==
    [][(LoginAnswered /\ ~event'.resp.fault /\ event'.resp.body = "Fails.")
          => (event'.kind = "done" /\ event'.error = ErrLoginFailed /\ sid' = sid)]_vars

\* C3 witness: an explicit login() was just rejected with 'Fails.' on a
\* client that held a token, and still holds it.
C3_Witness ==
    /\ event.kind = "done" /\ event.op = "login"
    /\ event.resp.body = "Fails." /\ event.error = ErrLoginFailed
    /\ event.sidBefore # NoSid /\ sid = event.sidBefore

\* the addTorrent argument a names at least one URL / carries no URL /
\* carries no torrent file
NamesUrls(a) == a.urls.items # << >> /\ \A i \in 1..Len(a.urls.items) : a.urls.items[i] # ""
UrlsEmpty(a) == \A i \in 1..Len(a.urls.items) : a.urls.items[i] = ""
NoFiles(a) == a.torrents.items = << >>

\* the step is an addTorrent call (the argument is recorded on the call)
AddTorrentCalled == event'.op = "addTorrent" /\ event'.arg # << >>

\* the request the caller's method has just passed to request()
PassedRequest == IF pc'[Caller] = "login_wait" THEN pend'[Caller] ELSE event'.req

\* C4 (as claimed): addTorrent with one or more URLs and no torrent files
\* raises no validation failure and passes on POST torrents/add with a form
\* that has a urls field.
C4_UrlsOnlyAccepted ==
    [][(AddTorrentCalled /\ NamesUrls(event'.arg[1]) /\ NoFiles(event'.arg[1]))
          => /\ event'.kind = "sent"
             /\ PassedRequest.method = "POST"
             /\ PassedRequest.endpoint = "torrents/add"
             /\ \E i \in 1..Len(PassedRequest.body) : PassedRequest.body[i].name = "urls"]_vars

\* C5: addTorrent with neither URLs nor torrent files throws the validation
\* error, sends nothing (no torrents/add, no lazy login) and leaves the
\* session token and every call in flight as they were.
C5_EmptyRejected ==
    [][(AddTorrentCalled /\ UrlsEmpty(event'.arg[1]) /\ NoFiles(event'.arg[1]))
          => /\ event'.kind = "done"
             /\ event'.error = ErrNoTorrent
             /\ sid' = sid /\ pc' = pc /\ pend' = pend]_vars

\* C5 witness: an empty addTorrent was just rejected on a client that has
\* credentials and no token, where a dispatched call would have logged in.
C5_Witness ==
    /\ event.kind = "done" /\ event.op = "addTorrent" /\ event.error = ErrNoTorrent
    /\ event.arg # << >> /\ UrlsEmpty(event.arg[1]) /\ NoFiles(event.arg[1])
    /\ event.arg[1].torrents.isArray
    /\ sid = NoSid /\ username # "" /\ password # ""
    /\ pc[Caller] = "idle"

\* C6 (as claimed): a network fault met by a dispatched call, in its API
\* request or in its lazy login request, reaches the caller as 'Request
\* failed: ...'.
C6_FaultsAreWrapped ==
    [][(event'.resp.fault /\ event'.op # "login")
          => (event'.kind = "done" /\ event'.error = ErrRequestFailed)]_vars

\* C7: construction sends nothing; a dispatched call sends a login request
\* first exactly when no token is held and both credentials are given, and
\* otherwise sends its API request at once (without Cookie when no token is
\* held); the API request of a lazily logging-in call is sent only after
\* its login returned, and a failed lazy login ends the call.
C7_Step ==
    \A p \in Procs :
        /\ Dispatched(p) =>
              /\ event'.kind = "sent"
              /\ pc'[p] \in {"login_wait", "api_wait"}
              /\ pc'[p] = "login_wait" <=> (sid = NoSid /\ username # "" /\ password # "")
              /\ pc'[p] = "login_wait" => event'.req.endpoint = "auth/login"
              /\ pc'[p] = "api_wait" =>
                    /\ event'.req.endpoint # "auth/login"
                    /\ sid = NoSid => event'.req.Cookie = << >>
        /\ (pc[p] = "login_wait" /\ op[p] # "login" /\ pc'[p] # "login_wait") =>
              IF event'.error # ""
              THEN pc'[p] = "idle" /\ pend'[p] = NoReq /\ event'.kind = "done"
              ELSE pc'[p] = "after_login" /\ event'.kind = "token"
        /\ (pc[p] # "api_wait" /\ pc'[p] = "api_wait") => pc[p] \in {"idle", "after_login"}
C7_LazyLogin ==
    /\ event.kind # "sent" /\ \A p \in Procs : pc[p] = "idle"
    /\ [][C7_Step]_vars

\* C7 witness: a call other than login() has just sent a login request.
C7_Witness ==
    /\ event.kind = "sent" /\ event.req.endpoint = "auth/login" /\ event.op # "login"
    /\ \E p \in Procs : pc[p] = "login_wait" /\ op[p] = event.op /\ pend[p] # NoReq

\* C8: a login answered with something other than 'Fails.' whose Set-Cookie
\* header holds no SID value throws the extraction error, which is not the
\* 'Login failed' error, and the client holds no token afterwards.
C8_ExtractionFailure ==
    [][(LoginAnswered /\ ~event'.resp.fault /\ event'.resp.body # "Fails."
          /\ NoSidIn(event'.resp.setCookie))
          => /\ event'.kind = "done"
             /\ event'.error = ErrSidExtraction
             /\ event'.error # ErrLoginFailed
             /\ sid' = NoSid]_vars

\* C8 witness: the extraction just failed on a client that held a token.
C8_Witness ==
    /\ event.kind = "done" /\ event.error = ErrSidExtraction
    /\ event.resp.to = "login" /\ NoSidIn(event.resp.setCookie)
    /\ event.sidBefore # NoSid /\ sid = NoSid

\* decoded values that are empty or absent
EmptyValues == {"undefined", "null", "false", "0", "''", "[]", "{}"}

TruthyCheckOps == {"getTorrentPeers", "getPreferences"}

\* C9 (as claimed): getTorrentPeers and getPreferences never return an
\* empty or absent value.
C9_NeverEmpty ==
    (event.kind = "done" /\ event.op \in TruthyCheckOps /\ event.error = "")
        => event.value \notin EmptyValues

\* C9 (amended): getTorrentPeers and getPreferences throw their failure
\* when the response has no body or decodes to null, false, 0 or ''; every
\* other decoded response, an empty list or empty object included, is
\* returned as it is.
C9_NeverFalsy ==
    (event.kind = "done" /\ event.op \in TruthyCheckOps /\ event.resp.to = "api"
       /\ ~event.resp.fault)
        => IF ~event.resp.hasBody \/ event.resp.body \in {"null", "false", "0", "\"\""}
           THEN event.error = (IF event.op = "getTorrentPeers" THEN ErrPeers ELSE ErrPreferences)
           ELSE IF event.resp.body \in {"[]", "{}", "[1]", "{\"a\":1}", "true", "Ok."}
           THEN /\ event.error = ""
                /\ event.value = (CASE event.resp.body = "[]" -> "[]"
                                    [] event.resp.body = "{}" -> "{}"
                                    [] event.resp.body = "[1]" -> "[1]"
                                    [] event.resp.body = "{\"a\":1}" -> "{a:1}"
                                    [] OTHER -> "true")
           ELSE event.error = ErrRequestFailed

\* C9 witness: getTorrentPeers has just returned an empty list.
C9_Witness ==
    /\ event.kind = "done" /\ event.op = "getTorrentPeers"
    /\ event.error = "" /\ event.resp.body = "[]" /\ event.value = "[]"

\* C10: a call dispatched while no token is held and both credentials are
\* given sends a login request of its own even when the login request of
\* another call is still in flight.
C10_UnguardedLazyLogin ==
    [][\A p \in Procs :
          (/\ Dispatched(p)
           /\ sid = NoSid /\ username # "" /\ password # ""
           /\ \E q \in Procs \ {p} : pc[q] = "login_wait")
          => (/\ pc'[p] = "login_wait"
              /\ event'.kind = "sent"
              /\ event'.req.endpoint = "auth/login")]_vars

\* C10 witness: the lazy logins of two calls are in flight at once.
C10_Witness ==
    /\ sid = NoSid
    /\ \E p, q \in Procs :
          /\ p # q
          /\ pc[p] = "login_wait" /\ op[p] # "login"
          /\ pc[q] = "login_wait" /\ op[q] # "login"

\* the methods that hand the value of request() to their caller unchanged
PassThroughOps == {"getAPIVersion", "getAllData", "addTorrent", "pauseTorrent",
                   "resumeTorrent", "removeTorrent", "getTorrentInfo"}

\* C11: a call that returns what request() decoded returns true for the
\* body 'Ok.', the parsed value for a JSON body, and fails with 'Request
\* failed: ...' without a value for any other body.
C11_Decoder ==
    (event.kind = "done" /\ event.op \in PassThroughOps /\ event.resp.to = "api"
       /\ ~event.resp.fault /\ event.resp.hasBody)
        => CASE event.resp.body = "Ok."        -> event.error = "" /\ event.value = "true"
             [] event.resp.body = "true"       -> event.error = "" /\ event.value = "true"
             [] event.resp.body = "false"      -> event.error = "" /\ event.value = "false"
             [] event.resp.body = "null"       -> event.error = "" /\ event.value = "null"
             [] event.resp.body = "0"          -> event.error = "" /\ event.value = "0"
             [] event.resp.body = "\"\""       -> event.error = "" /\ event.value = "''"
             [] event.resp.body = "[]"         -> event.error = "" /\ event.value = "[]"
             [] event.resp.body = "{}"         -> event.error = "" /\ event.value = "{}"
             [] event.resp.body = "[1]"        -> event.error = "" /\ event.value = "[1]"
             [] event.resp.body = "{\"a\":1}"  -> event.error = "" /\ event.value = "{a:1}"
             [] OTHER -> event.error = ErrRequestFailed /\ event.value = "undefined"

\* C11 witness: getAllData has just failed on a body that is neither 'Ok.'
\* nor JSON.
C11_Witness ==
    /\ event.kind = "done" /\ event.op = "getAllData"
    /\ event.resp.hasBody /\ event.resp.body = "Fails."
    /\ event.error = ErrRequestFailed /\ event.value = "undefined"

\* C12 (as claimed): getAPIVersion answered with the plain-text version
\* body v2.0 completes successfully and returns that string.
C12_VersionReturned ==
    (event.kind = "done" /\ event.op = "getAPIVersion" /\ event.resp.to = "api"
       /\ ~event.resp.fault /\ event.resp.hasBody /\ event.resp.body = "v2.0")
        => (event.error = "" /\ event.value = "v2.0")

ScalarNames == {"savepath", "category", "paused", "skip_checking", "rename", "upLimit", "dlLimit"}

\* the text the scalar option n of the addTorrent argument a is to be sent
\* as, "" when the option is absent, false, 0 or ''
ScalarText(a, n) ==
    IF n \in {"savepath", "category", "rename"} THEN a[n]
    ELSE IF n \in {"paused", "skip_checking"} THEN (IF a[n] = <<TRUE>> THEN "true" ELSE "")
    ELSE IF a[n] = << >> THEN ""
    ELSE CASE a[n][1] = 0 -> "" [] a[n][1] = 5 -> "5" [] a[n][1] = 10 -> "10"

\* the positions of the fields named n in the form f
FieldsNamed(f, n) == {i \in 1..Len(f) : f[i].name = n}

\* C13: in the form addTorrent passes on, each scalar option has exactly
\* one text field with its stringified value when it was given a truthy
\* value, and no field when it is absent, false, 0 or ''.
C13_ScalarFields ==
    [][(AddTorrentCalled /\ event'.kind = "sent")
          => \A n \in ScalarNames :
                LET is == FieldsNamed(PassedRequest.body, n)
                    text == ScalarText(event'.arg[1], n)
                IN  /\ Cardinality(is) = (IF text = "" THEN 0 ELSE 1)
                    /\ \A i \in is : /\ PassedRequest.body[i].value = text
                                      /\ PassedRequest.body[i].filename = ""
                                      /\ PassedRequest.body[i].type = ""]_vars

\* C13 witness: a form was just sent for an argument with paused: true,
\* upLimit: 10, skip_checking: false and dlLimit: 0, holding the first two
\* and neither of the last two.
C13_Witness ==
    /\ event.kind = "sent" /\ event.op = "addTorrent" /\ event.arg # << >>
    /\ event.req.endpoint = "torrents/add"
    /\ event.arg[1].paused = <<TRUE>> /\ event.arg[1].upLimit = <<10>>
    /\ event.arg[1].skip_checking = <<FALSE>> /\ event.arg[1].dlLimit = <<0>>
    /\ \E i \in FieldsNamed(event.req.body, "paused") : event.req.body[i].value = "true"
    /\ \E i \in FieldsNamed(event.req.body, "upLimit") : event.req.body[i].value = "10"
    /\ FieldsNamed(event.req.body, "skip_checking") = {}
    /\ FieldsNamed(event.req.body, "dlLimit") = {}

InfoNames == {"filter", "category", "sort", "reverse", "limit", "offset", "hashes"}

\* the step is a getTorrentInfo call (the argument is recorded on the call)
GetTorrentInfoCalled == event'.op = "getTorrentInfo" /\ event'.arg # << >>

\* the field n of the getTorrentInfo argument a is present / holds a truthy
\* value (a list of hashes is truthy even when it is empty)
InfoPresent(a, n) ==
    IF n \in {"filter", "category", "sort"} THEN a[n] # ""
    ELSE IF n \in {"reverse", "limit", "offset"} THEN a[n] # << >>
    ELSE a.hashes.isArray \/ (a.hashes.items # << >> /\ a.hashes.items[1] # "")
InfoTruthy(a, n) ==
    IF n = "reverse" THEN a[n] = <<TRUE>>
    ELSE IF n \in {"limit", "offset"} THEN a[n] # << >> /\ a[n][1] # 0
    ELSE InfoPresent(a, n)

\* the text the field n of a is to be sent as
InfoText(a, n) ==
    IF n \in {"filter", "category", "sort"} THEN a[n]
    ELSE IF n = "reverse" THEN (IF a[n][1] THEN "true" ELSE "false")
    ELSE IF n \in {"limit", "offset"}
    THEN CASE a[n][1] = 0 -> "0" [] a[n][1] = 5 -> "5" [] a[n][1] = 10 -> "10"
    ELSE CASE Len(a.hashes.items) = 0 -> ""
           [] Len(a.hashes.items) = 1 -> a.hashes.items[1]
           [] Len(a.hashes.items) = 2 -> a.hashes.items[1] \o "|" \o a.hashes.items[2]

\* C14 (as claimed): the query getTorrentInfo passes on has a parameter
\* for exactly the fields of its argument that are present, a list of
\* hashes as one parameter joined with '|'.
C14_PresentFieldsEncoded ==
    [][GetTorrentInfoCalled
          => \A n \in InfoNames :
                LET is == FieldsNamed(PassedRequest.query, n)
                IN  /\ Cardinality(is) = (IF InfoPresent(event'.arg[1], n) THEN 1 ELSE 0)
                    /\ \A i \in is :
                          PassedRequest.query[i].value = InfoText(event'.arg[1], n)]_vars

\* C14 (amended): the query has a parameter for exactly the fields that
\* hold a truthy value: an absent field and a given reverse: false,
\* limit: 0, offset: 0 or '' have none; a list of hashes is one parameter
\* joined with '|'.
C14_TruthyFieldsEncoded ==
    [][GetTorrentInfoCalled
          => /\ PassedRequest.method = "GET" /\ PassedRequest.endpoint = "torrents/info"
             /\ \A n \in InfoNames :
                   LET is == FieldsNamed(PassedRequest.query, n)
                   IN  /\ Cardinality(is) = (IF InfoTruthy(event'.arg[1], n) THEN 1 ELSE 0)
                       /\ \A i \in is :
                             PassedRequest.query[i].value = InfoText(event'.arg[1], n)]_vars

\* C14 witness: {filter: 'downloading', hashes: ['a', 'b']} was just sent
\* as exactly filter=downloading and hashes=a|b.
C14_Witness ==
    /\ event.kind = "sent" /\ event.op = "getTorrentInfo" /\ event.arg # << >>
    /\ event.arg[1].filter = "downloading" /\ event.arg[1].hashes = List(<<"a", "b">>)
    /\ event.req.endpoint = "torrents/info"
    /\ event.req.query = <<Field("filter", "downloading"), Field("hashes", "a|b")>>

\* the parts named 'torrents' of the form f, in their order
TorrentParts(f) ==
    LET IsTorrentPart(x) == x.name = "torrents" IN SelectSeq(f, IsTorrentPart)

\* the fallback file name of the file at the zero-based position i
FallbackName(i) ==
    CASE i = 0 -> "torrent_0.torrent" [] i = 1 -> "torrent_1.torrent"
      [] i = 2 -> "torrent_2.torrent"

\* C15: the form addTorrent passes on has one 'torrents' part per file, in
\* the order of the files; the part of the file at position i carries the
\* file's name when it has one and torrent_<i>.torrent otherwise, i counted
\* over all the files.
C15_TorrentParts ==
    [][(AddTorrentCalled /\ event'.kind = "sent")
          => LET files == event'.arg[1].torrents.items
                 parts == TorrentParts(PassedRequest.body)
             IN  /\ Len(parts) = Len(files)
                 /\ \A i \in 1..Len(files) :
                       /\ parts[i].filename =
                             (IF files[i].filename # "" THEN files[i].filename
                              ELSE FallbackName(i - 1))
                       /\ parts[i].value = files[i].content
                       /\ parts[i].type = files[i].content_type]_vars

\* C15 witness: a form was just sent for a named file followed by two unnamed ones,
\* which went out as x.torrent, torrent_1.torrent and torrent_2.torrent.
C15_Witness ==
    /\ event.kind = "sent" /\ event.op = "addTorrent" /\ event.arg # << >>
    /\ event.req.endpoint = "torrents/add"
    /\ Len(event.arg[1].torrents.items) = 3
    /\ event.arg[1].torrents.items[1].filename = "x.torrent"
    /\ event.arg[1].torrents.items[2].filename = ""
    /\ event.arg[1].torrents.items[3].filename = ""
    /\ [i \in 1..3 |-> TorrentParts(event.req.body)[i].filename]
          = <<"x.torrent", "torrent_1.torrent", "torrent_2.torrent">>

\* some file of the addTorrent argument a has a buffer that is neither
\* text nor a Buffer, ArrayBuffer or SharedArrayBuffer
SomeBufferUnsupported(a) ==
    \E i \in 1..Len(a.torrents.items) :
        a.torrents.items[i].bufferKind
            \notin {"string", "Buffer", "ArrayBuffer", "SharedArrayBuffer"}

\* C16: addTorrent with a file whose buffer is unsupported throws
\* 'Unsupported buffer type', sends nothing (no torrents/add, no lazy
\* login) and leaves the token and every call in flight as they were, also
\* when other files of the list are valid.
C16_UnsupportedBufferRejected ==
    [][(AddTorrentCalled /\ SomeBufferUnsupported(event'.arg[1]))
          => /\ event'.kind = "done"
             /\ event'.error = ErrBufferType
             /\ event'.req = NoWire
             /\ sid' = sid /\ pc' = pc /\ pend' = pend]_vars

\* C16 witness: addTorrent was just rejected for the second file of a list
\* whose first file is valid, on a client that has credentials and no
\* token, where a dispatched call would have logged in.
C16_Witness ==
    /\ event.kind = "done" /\ event.op = "addTorrent" /\ event.error = ErrBufferType
    /\ event.arg # << >> /\ Len(event.arg[1].torrents.items) = 2
    /\ event.arg[1].torrents.items[1].bufferKind = "string"
    /\ event.arg[1].torrents.items[2].bufferKind = "other"
    /\ sid = NoSid /\ username # "" /\ password # ""
    /\ pc[Caller] = "idle"

\* C17: the token changes only in the step that answers a login request
\* and in the step that ends a successful logout(), which clears it; the
\* answer to an API request and the end of any other call, successful or
\* failed, leave it as it was; a call dispatched while a token is held
\* sends its API request with that token and no login request.
C17_Step ==
    /\ sid' # sid =>
          \/ LoginAnswered
          \/ (event'.kind = "done" /\ event'.op = "logout" /\ event'.error = ""
                /\ sid' = NoSid)
    /\ (sid' # sid /\ sid' # NoSid) => LoginAnswered
    /\ ApiAnswered => sid' = sid
    /\ (event'.kind = "done" /\ event'.op \notin {"login", "logout"}
          /\ event'.resp.to # "login") => sid' = sid
    /\ \A p \in Procs :
          (Dispatched(p) /\ sid # NoSid)
             => /\ sid' = sid
                /\ pc'[p] = "api_wait"
                /\ event'.kind = "sent"
                /\ event'.req.endpoint # "auth/login"
                /\ event'.req.Cookie = <<"SID=">> \o sid
C17_TokenFrame == [][C17_Step]_vars

\* C17 witness: an API request of a call other than logout() has just
\* failed on a client that held a token, and the token is still held.
C17_Witness ==
    /\ event.kind = "done" /\ event.op \notin {"login", "logout"}
    /\ event.resp.to = "api" /\ event.error = ErrRequestFailed
    /\ event.sidBefore # NoSid /\ sid = event.sidBefore
    /\ username # "" /\ password # ""

\* C18: a logout() called without a token and with both credentials sends
\* a login request first; once that login has set a token the call sends
\* POST auth/logout with the cookie of that token, and when that request
\* has settled it clears the token without sending anything more; a
\* logout() sends a login request only when it is called and auth/logout
\* only when it is called or after its login.  Called without a token and
\* without credentials it sends auth/logout at once, with no Cookie.
C18_Step ==
    LET p == Caller
        creds == username # "" /\ password # ""
    IN  /\ (Dispatched(p) /\ op'[p] = "logout" /\ sid = NoSid /\ creds)
              => /\ event'.kind = "sent" /\ event'.req.endpoint = "auth/login"
                 /\ pc'[p] = "login_wait"
        /\ (pc[p] = "login_wait" /\ op[p] = "logout" /\ pc'[p] # pc[p] /\ event'.error = "")
              => /\ pc'[p] = "after_login" /\ event'.kind = "token"
                 /\ SidValueOf(sid', event'.resp.setCookie)
        /\ (pc[p] = "after_login" /\ op[p] = "logout" /\ pc'[p] # pc[p])
              => /\ event.kind = "token" /\ SidValueOf(sid, event.resp.setCookie)
                 /\ event'.kind = "sent"
                 /\ event'.req.method = "POST" /\ event'.req.endpoint = "auth/logout"
                 /\ event'.req.Cookie = <<"SID=">> \o sid
                 /\ pc'[p] = "api_wait" /\ sid' = sid
        /\ (pc[p] = "logout_resume" /\ pc'[p] # pc[p])
              => /\ event'.kind = "done" /\ event'.error = ""
                 /\ pc'[p] = "idle" /\ sid' = NoSid
        /\ (event'.kind = "sent" /\ event'.op = "logout")
              => /\ pc[p] \in {"idle", "after_login"}
                 /\ event'.req.endpoint = "auth/login" => pc[p] = "idle"
                 /\ event'.req.endpoint # "auth/login" => event'.req.endpoint = "auth/logout"
        /\ (Dispatched(p) /\ op'[p] = "logout" /\ sid = NoSid /\ ~creds)
              => /\ event'.kind = "sent"
                 /\ event'.req.method = "POST" /\ event'.req.endpoint = "auth/logout"
                 /\ event'.req.Cookie = << >>
                 /\ pc'[p] = "api_wait"
C18_LogoutLogsInFirst == [][C18_Step]_vars

\* C18 witness: the login a logout() started on a client without a token
\* has just set one, and the call holds its auth/logout request to send.
C18_Witness ==
    /\ event.kind = "token" /\ event.op = "logout"
    /\ event.sidBefore = NoSid /\ sid # NoSid
    /\ pc[Caller] = "after_login" /\ op[Caller] = "logout"
    /\ pend[Caller].endpoint = "auth/logout"

\* C19: an explicit login() answered while a token is held throws 'Login
\* failed' and keeps that token when the body is 'Fails.', throws the
\* extraction error and holds no token when the Set-Cookie header has no
\* SID value, and otherwise returns and holds a SID value of the header.
C19_ExplicitLogin ==
    [][(LoginAnswered /\ event'.op = "login" /\ sid # NoSid /\ ~event'.resp.fault)
          => /\ event'.kind = "done"
             /\ IF event'.resp.body = "Fails."
                THEN event'.error = ErrLoginFailed /\ sid' = sid
                ELSE IF NoSidIn(event'.resp.setCookie)
                THEN event'.error = ErrSidExtraction /\ sid' = NoSid
                ELSE event'.error = "" /\ SidValueOf(sid', event'.resp.setCookie)]_vars

\* C19 witness: an explicit login() has just returned on a client that held
\* a token, which now holds another one.
C19_Witness ==
    /\ event.kind = "done" /\ event.op = "login" /\ event.error = ""
    /\ event.sidBefore # NoSid /\ sid # NoSid /\ sid # event.sidBefore
    /\ SidValueOf(sid, event.resp.setCookie)
    /\ ~SidValueOf(event.sidBefore, event.resp.setCookie)

\* C20 (as claimed): a lazy login whose request was in flight when
\* logout() returned successfully does not populate the token: when the
\* step after that return is the answer to the login request of a call
\* other than login(), which was then sent before the return, the client
\* still holds no token.
C20_NoTokenAfterLogout ==
    [][(/\ event.kind = "done" /\ event.op = "logout" /\ event.error = ""
        /\ LoginAnswered /\ event'.op # "login")
          => sid' = NoSid]_vars

====
